---- MODULE Spec2Model ----
(***************************************************************************)
(* Model of organigramma_ente (Django app "organigramma"): the tree of     *)
(* Struttura rows with their hierarchical codes, the hierarchy validator   *)
(* Struttura.clean, and the ledger of StrutturaResponsabile rows kept in   *)
(* step with the Struttura.responsabile pointer by                         *)
(* Struttura.sync_assignment_from_fk.                                      *)
(*                                                                         *)
(* Primary keys are positions in the sequences strutture / assegnazioni    *)
(* (rows are never deleted by the operations modelled).  Dates are day     *)
(* numbers 1, 2, ...; Null stands for None / NULL.  A codice is the string *)
(* itself, as the sequence of its character codes, so that the database's  *)
(* ORDER BY codice (a string comparison) and Python's int()/str()/split()  *)
(* are modelled by what they do.                                           *)
(***************************************************************************)
EXTENDS Integers, Sequences, FiniteSets, TLC

VARIABLES
    strutture,      \* table Struttura: pk |-> row
    assegnazioni,   \* table StrutturaResponsabile: pk |-> row
    today,          \* timezone.now().date()
    lastOp,         \* the request served by the last step, and its outcome
    procs           \* in-flight requests of the interleaved specifications

vars == <<strutture, assegnazioni, today, lastOp, procs>>

(***************************************************************************)
(* Bounds of the model.                                                    *)
(***************************************************************************)
MaxStrutture == 3       \* rows of Struttura in the tree specification
MaxLedgerStrutture == 1 \* rows of Struttura in the ledger specification
MaxDay == 3             \* the clock runs over days 1..MaxDay
NProc == 2              \* concurrent requests in the interleaved specifications
MaxCodiceLen == 5        \* characters of a codice ("1.1.1")
MaxSuffix == 2          \* largest number in a codice
MaxRoots == 11           \* root units created in sequence
MaxSaveStrutture == 2   \* rows of Struttura in the save and chart specifications
MaxSaveDay == 2         \* the clock of the save specification runs over 1..MaxSaveDay

(***************************************************************************)
(* Program constants.                                                      *)
(***************************************************************************)
Null == 0               \* None / NULL
Dot == 46               \* ord('.')
Zero == 48              \* ord('0')
Infinito == 9999        \* date(9999, 12, 31), the "infinite" end date

Days == 1..MaxDay

(***************************************************************************)
(* Reference data.  Livello rows (models.py 28-57): ordine, can_be_root    *)
(* and the allowed_parents whitelist.  Level 3 has a whitelist that admits *)
(* a parent of equal ordine and excludes one of lower ordine.              *)
(***************************************************************************)
Livelli ==
    <<[ordine |-> 0, can_be_root |-> TRUE,  allowed_parents |-> {}],
      [ordine |-> 1, can_be_root |-> FALSE, allowed_parents |-> {}],
      [ordine |-> 1, can_be_root |-> TRUE,  allowed_parents |-> {2}]>>

LivelloIds == 1..Len(Livelli)

(***************************************************************************)
(* Responsabile rows (models.py 72-99): the person's own employment        *)
(* interval.  Person 2 is hired on day 2.                                  *)
(***************************************************************************)
Responsabili ==
    <<[data_inizio |-> 1, data_fine |-> Null],
      [data_inizio |-> 2, data_fine |-> Null]>>

ResponsabileIds == 1..Len(Responsabili)

\* Responsabile.is_active(d)
RespIsActive(r, d) ==
    /\ (Responsabili[r].data_inizio = Null \/ Responsabili[r].data_inizio <= d)
    /\ (Responsabili[r].data_fine = Null \/ Responsabili[r].data_fine >= d)

(***************************************************************************)
(* Strings: str(), int(), split('.')[-1] and the ordering of ORDER BY.     *)
(***************************************************************************)
RECURSIVE Str(_)
Str(n) == IF n < 10 THEN <<Zero + n>> ELSE Str(n \div 10) \o <<Zero + (n % 10)>>

IsDigit(c) == c >= Zero /\ c <= Zero + 9

\* int(s) raises ValueError unless s is a non-empty string of digits
IntOk(s) == Len(s) > 0 /\ \A i \in 1..Len(s) : IsDigit(s[i])

RECURSIVE IntValue(_)
IntValue(s) ==
    IF s = <<>> THEN 0
    ELSE 10 * IntValue(SubSeq(s, 1, Len(s) - 1)) + (s[Len(s)] - Zero)

SetMax(S) == CHOOSE x \in S : \A y \in S : y <= x

\* s.split('.')[-1]
LastSegment(s) ==
    LET dots == {i \in 1..Len(s) : s[i] = Dot}
    IN  IF dots = {} THEN s ELSE SubSeq(s, SetMax(dots) + 1, Len(s))

\* a < b in the database's (binary) string order
StrLess(a, b) ==
    \E k \in 1..(Len(a) + 1) :
        /\ \A j \in 1..(k - 1) : j <= Len(b) /\ a[j] = b[j]
        /\ \/ k = Len(a) + 1 /\ Len(b) >= k
           \/ k <= Len(a) /\ k <= Len(b) /\ a[k] < b[k]

Pks(S) == 1..Len(S)

\* The model follows codes up to MaxCodiceLen characters whose numbers are at
\* most MaxSuffix; the program's codes grow without bound.
CodiceInBounds(c) ==
    /\ Len(c) <= MaxCodiceLen
    /\ \A i \in 1..Len(c) : c[i] = Dot \/ c[i] <= Zero + MaxSuffix

(***************************************************************************)
(* Code generator (models.py 243-264).                                     *)
(***************************************************************************)
\* Struttura.objects.filter(struttura_padre=parent).exclude(pk=self.pk)
Siblings(S, parent, selfPk) ==
    {i \in Pks(S) : S[i].struttura_padre = parent /\ i # selfPk}

\* siblings.order_by('codice').last().codice
LastCode(S, sib) ==
    LET codes == {S[i].codice : i \in sib}
    IN  CHOOSE c \in codes : \A o \in codes : ~StrLess(c, o)

GenerateCodeForParent(S, selfPk, parent) ==
    LET parent_code == S[parent].codice
        sib == Siblings(S, parent, selfPk)
    IN  IF sib # {}
        THEN LET seg == LastSegment(LastCode(S, sib))
                 new_suffix == IF IntOk(seg) THEN IntValue(seg) + 1 ELSE 1
             IN  parent_code \o <<Dot>> \o Str(new_suffix)
        ELSE parent_code \o <<Dot>> \o Str(1)

GenerateCodeForRoot(S, selfPk) ==
    LET sib == Siblings(S, Null, selfPk)
    IN  IF sib # {}
        THEN LET last == LastCode(S, sib)
             IN  IF IntOk(last) THEN Str(IntValue(last) + 1) ELSE Str(1)
        ELSE Str(1)

(***************************************************************************)
(* Hierarchy validator, Struttura.clean (models.py 181-239).  The verdict  *)
(* is the ValidationError raised, "ok", or "NonTermination" when the       *)
(* ancestor walk never leaves a cycle of stored rows.                      *)
(***************************************************************************)
\* The while loop of lines 192-196, started at ancestor = self.struttura_padre.
\* After more than Len(S) steps a row has been visited twice, without meeting
\* None or self.pk: the loop runs forever.
RECURSIVE AncestorWalk(_, _, _, _)
AncestorWalk(S, selfPk, ancestor, steps) ==
    IF ancestor = Null THEN "ok"
    ELSE IF selfPk # Null /\ ancestor = selfPk THEN "CycleDetected"
    ELSE IF steps > Len(S) THEN "NonTermination"
    ELSE AncestorWalk(S, selfPk, S[ancestor].struttura_padre, steps + 1)

\* The level rules with the order rule alone: the allowed_parents whitelist is
\* never consulted.  C11 does not hold of it.
LevelRulesOrderOnly(S, s) ==
    LET lvl == s.livello
        padre == s.struttura_padre
        padre_lvl == IF padre # Null THEN S[padre].livello ELSE Null
    IN  IF padre = Null
        THEN IF lvl # Null /\ ~Livelli[lvl].can_be_root
             THEN "RootNotAllowed" ELSE "ok"
        ELSE IF lvl = Null \/ padre_lvl = Null THEN "ok"
        ELSE IF Livelli[padre_lvl].ordine >= Livelli[lvl].ordine
             THEN "LevelMismatch" ELSE "ok"

\* The level rules without the root rule: a unit without a parent passes
\* whatever its level.  C10 does not hold of it.
LevelRulesNoRootRule(S, s) ==
    LET lvl == s.livello
        padre == s.struttura_padre
        padre_lvl == IF padre # Null THEN S[padre].livello ELSE Null
    IN  IF padre = Null THEN "ok"
        ELSE IF lvl = Null \/ padre_lvl = Null THEN "ok"
        ELSE IF Livelli[lvl].allowed_parents # {}
        THEN IF padre_lvl \in Livelli[lvl].allowed_parents
             THEN "ok" ELSE "LevelMismatch"
        ELSE IF Livelli[padre_lvl].ordine >= Livelli[lvl].ordine
             THEN "LevelMismatch" ELSE "ok"

\* Steps 3 and 4 (lines 198-239)
LevelRules(S, s) ==
    LET lvl == s.livello
        padre == s.struttura_padre
        padre_lvl == IF padre # Null THEN S[padre].livello ELSE Null
    IN  IF padre = Null
        THEN IF lvl # Null /\ ~Livelli[lvl].can_be_root
             THEN "RootNotAllowed" ELSE "ok"
        ELSE IF lvl = Null \/ padre_lvl = Null THEN "ok"
        ELSE IF Livelli[lvl].allowed_parents # {}
        THEN IF padre_lvl \in Livelli[lvl].allowed_parents
             THEN "ok" ELSE "LevelMismatch"
        ELSE IF Livelli[padre_lvl].ordine >= Livelli[lvl].ordine
             THEN "LevelMismatch" ELSE "ok"

\* The validator's cycle rule without the ancestor walk: the self-parent test
\* alone.  C9 does not hold of it.
CycleRulesSelfOnly(S, s) ==
    IF s.struttura_padre # Null /\ s.pk # Null /\ s.struttura_padre = s.pk
    THEN "CycleDetected" ELSE "ok"

\* Steps 1 and 2 (lines 184-196)
CycleRules(S, s) ==
    IF s.struttura_padre = Null THEN "ok"
    ELSE IF s.pk # Null /\ s.struttura_padre = s.pk THEN "CycleDetected"
    ELSE AncestorWalk(S, s.pk, s.struttura_padre, 1)

Clean(S, s) ==
    IF s.data_inizio # Null /\ s.data_fine # Null /\ s.data_fine < s.data_inizio
    THEN "InvalidInterval"
    ELSE IF CycleRules(S, s) # "ok" THEN CycleRules(S, s)
    ELSE LevelRules(S, s)

\* active_on with an exclusive end date: a closed row is no longer active on
\* its last day.  C8 does not hold of it.
ActiveOnExclusiveEnd(A, u, d) ==
    {i \in Pks(A) :
        /\ A[i].struttura = u
        /\ (A[i].data_inizio = Null \/ A[i].data_inizio <= d)
        /\ (A[i].data_fine = Null \/ A[i].data_fine > d)}

(***************************************************************************)
(* The ledger: StrutturaResponsabile (models.py 376-433).                  *)
(***************************************************************************)
\* StrutturaResponsabileQuerySet.active_on through struttura.assegnazioni
ActiveOn(A, u, d) ==
    {i \in Pks(A) :
        /\ A[i].struttura = u
        /\ (A[i].data_inizio = Null \/ A[i].data_inizio <= d)
        /\ (A[i].data_fine = Null \/ A[i].data_fine >= d)}

\* current_assignment asked of the whole table rather than of the unit's own
\* rows: the latest row active on d, whichever unit it belongs to.  C27 does
\* not hold of it.
CurrentAssignmentAnyUnit(A, u, d) ==
    LET act == {i \in Pks(A) : /\ A[i].data_inizio <= d
                               /\ (A[i].data_fine = Null \/ A[i].data_fine >= d)}
    IN  IF act = {} THEN {Null}
        ELSE {i \in act : \A j \in act : A[j].data_inizio <= A[i].data_inizio}

\* current_assignment without the date filter: the unit's latest row, whether
\* or not it is active on d.  C18 does not hold of it.
CurrentAssignmentAnyDate(A, u, d) ==
    LET rows == {i \in Pks(A) : A[i].struttura = u}
    IN  IF rows = {} THEN {Null}
        ELSE {i \in rows : \A j \in rows : A[j].data_inizio <= A[i].data_inizio}

\* Struttura.current_assignment(d): .order_by('-data_inizio').first().  The
\* result is a set: the rows the query may return ({Null} for None); rows
\* with equal data_inizio come in an order the database chooses.
CurrentAssignment(A, u, d) ==
    LET act == ActiveOn(A, u, d)
    IN  IF act = {} THEN {Null}
        ELSE {i \in act : \A j \in act : A[j].data_inizio <= A[i].data_inizio}

\* StrutturaResponsabile.clean without its overlap query.  C3 does not hold
\* of it.
OverlapsNever(A, selfPk, u, a0, a1) == FALSE

\* The overlap query of StrutturaResponsabile.clean (lines 419-427)
Overlaps(A, selfPk, u, a0, a1) ==
    \E j \in Pks(A) :
        /\ A[j].struttura = u
        /\ j # selfPk
        /\ A[j].data_inizio <= a1
        /\ (A[j].data_fine = Null \/ A[j].data_fine >= a0)

\* StrutturaResponsabile.clean on row r (r.pk = Null before the insert)
AssegnazioneClean(A, r) ==
    IF r.data_inizio # Null /\ r.data_fine # Null /\ r.data_fine < r.data_inizio
    THEN "InvalidInterval"
    ELSE IF r.struttura = Null THEN "ok"
    ELSE LET a0 == r.data_inizio
             a1 == IF r.data_fine # Null THEN r.data_fine ELSE Infinito
         IN  IF Overlaps(A, r.pk, r.struttura, a0, a1)
             THEN "OverlappingAssignment" ELSE "ok"

\* The close date without the clamp: the day before the effective date,
\* whatever the row's start.  C24 does not hold of it.
CloseDateUnclamped(A, cur, d) == d - 1

\* Closing the current row on the effective date itself rather than the day
\* before.  C7 does not hold of it.
CloseDateEffective(A, cur, d) == d

\* end of the closed assignment (lines 294-296)
CloseDate(A, cur, d) ==
    LET end == d - 1
    IN  IF A[cur].data_inizio # Null /\ end < A[cur].data_inizio
        THEN A[cur].data_inizio ELSE end

\* The close without the clamp and without cur.full_clean(): the row ends the
\* day before the effective date, whatever its start.  C17 does not hold of it.
CloseRowUnchecked(A, row, d) ==
    [assegnazioni |-> [A EXCEPT ![row.pk].data_fine = d - 1], err |-> "ok"]

\* lines 297-300: the close, made on the row object `row` that
\* current_assignment returned; cur.full_clean() raises before cur.save()
\* writes anything
CloseRow(A, row, d) ==
    LET end == CloseDate(A, row.pk, d)
        closed == [row EXCEPT !.data_fine = end]
    IN  IF row.data_fine = Null \/ row.data_fine # end
        THEN IF AssegnazioneClean(A, closed) # "ok"
             THEN [assegnazioni |-> A, err |-> AssegnazioneClean(A, closed)]
             ELSE [assegnazioni |-> [A EXCEPT ![row.pk] = closed], err |-> "ok"]
        ELSE [assegnazioni |-> A, err |-> "ok"]

\* lines 292-300: close the current assignment, if there is one
CloseCurrent(A, cur, d) ==
    IF cur = Null THEN [assegnazioni |-> A, err |-> "ok"]
    ELSE CloseRow(A, A[cur], d)

\* start of the new assignment (line 304)
StartDate(s, d) ==
    IF s.data_inizio # Null /\ s.data_inizio > d THEN s.data_inizio ELSE d

NewAssegnazione(A, s, d) ==
    [pk |-> Null, struttura |-> s.pk, responsabile |-> s.responsabile,
     data_inizio |-> StartDate(s, d), data_fine |-> Null]

\* lines 302-309: StrutturaResponsabile.objects.create -> save -> full_clean
OpenNew(A, s, d) ==
    IF s.responsabile = Null THEN [assegnazioni |-> A, err |-> "ok"]
    ELSE LET r == NewAssegnazione(A, s, d)
         IN  IF AssegnazioneClean(A, r) # "ok"
             THEN [assegnazioni |-> A, err |-> AssegnazioneClean(A, r)]
             ELSE [assegnazioni |-> Append(A, [r EXCEPT !.pk = Len(A) + 1]),
                   err |-> "ok"]

\* Struttura.sync_assignment_from_fk (lines 277-309) for the instance s on
\* effective date d, cur being the row current_assignment(d) returned.  No
\* transaction spans the two writes: a failed insert leaves the close in place.
SyncAssignmentFromFk(A, s, d, cur) ==
    IF cur # Null /\ s.responsabile # Null /\ A[cur].responsabile = s.responsabile
    THEN [assegnazioni |-> A, err |-> "ok"]
    ELSE LET c == CloseCurrent(A, cur, d)
         IN  IF c.err # "ok" THEN c ELSE OpenNew(c.assegnazioni, s, d)

\* responsabile_on consulting the pointer before the ledger.  C19 does not
\* hold of it.
ResponsabileOnPointerFirst(S, A, u, on_date, assegn) ==
    IF S[u].responsabile # Null /\ RespIsActive(S[u].responsabile, on_date)
    THEN S[u].responsabile
    ELSE IF assegn # Null /\ RespIsActive(A[assegn].responsabile, on_date)
    THEN A[assegn].responsabile
    ELSE Null

\* Struttura.responsabile_on (lines 313-333); Null is "vacant"
ResponsabileOn(S, A, u, on_date, assegn) ==
    IF assegn # Null /\ RespIsActive(A[assegn].responsabile, on_date)
    THEN A[assegn].responsabile
    ELSE IF S[u].responsabile # Null /\ RespIsActive(S[u].responsabile, on_date)
    THEN S[u].responsabile
    ELSE Null

(***************************************************************************)
(* Struttura.save (models.py 335-369), up to and including the write of    *)
(* the row (line 365).                                                     *)
(***************************************************************************)
ParentChanged(S, s) ==
    LET old_parent_id == IF s.pk # Null THEN S[s.pk].struttura_padre ELSE Null
    IN  old_parent_id # s.struttura_padre

\* resp_changed taken as true on every save: the ledger is reconciled whether
\* or not the manager pointer differs.  C25 does not hold of it.
RespChangedAlways(S, s) == TRUE

RespChanged(S, s) ==
    LET prev_resp_id == IF s.pk # Null THEN S[s.pk].responsabile ELSE Null
    IN  prev_resp_id # s.responsabile

\* A save that generates the codice anew every time, whether or not the row
\* has one and its parent changed.  C23 does not hold of it.
SaveCodiceAlways(S, s) ==
    IF s.struttura_padre # Null
    THEN GenerateCodeForParent(S, s.pk, s.struttura_padre)
    ELSE GenerateCodeForRoot(S, s.pk)

\* lines 357-362
SaveCodice(S, s) ==
    IF s.codice = <<>> \/ ParentChanged(S, s)
    THEN IF s.struttura_padre # Null
         THEN GenerateCodeForParent(S, s.pk, s.struttura_padre)
         ELSE GenerateCodeForRoot(S, s.pk)
    ELSE s.codice

\* A save whose write of the row is lost.  C14 does not hold of it.
PersistDropped(S, s) == S

\* line 364: INSERT for a new instance, UPDATE otherwise
Persist(S, s) ==
    IF s.pk = Null THEN Append(S, [s EXCEPT !.pk = Len(S) + 1])
    ELSE [S EXCEPT ![s.pk] = s]

SavedPk(S, s) == IF s.pk = Null THEN Len(S) + 1 ELSE s.pk

(***************************************************************************)
(* Requests.  lastOp records the request served by the last step: the      *)
(* validator's verdict ("none" when Struttura.clean was not run), whether  *)
(* the row was written and, when sync_assignment_from_fk was called, the   *)
(* row it was called on (pk), the assignment it read (cur) and how it      *)
(* ended (sync_err, "none" when it was not called).                        *)
(***************************************************************************)
\* Struttura() before the form's fields are applied (data_inizio defaults to now)
BlankInstance(d) ==
    [pk |-> Null, livello |-> Null, struttura_padre |-> Null, codice |-> <<>>,
     data_inizio |-> d, data_fine |-> Null, responsabile |-> Null]

NoOp(op) ==
    [op |-> op, pk |-> Null, verdict |-> "none", saved |-> FALSE,
     synced |-> FALSE, cur |-> Null, sync_err |-> "none"]

\* StrutturaQuerySet.active_on (models.py 106-111)
StrutturaActiveOn(S, u, on_date) ==
    /\ (S[u].data_inizio = Null \/ S[u].data_inizio <= on_date)
    /\ (S[u].data_fine = Null \/ S[u].data_fine >= on_date)

\* StrutturaForm.__init__ (forms.py 79-97): the choices offered for
\* struttura_padre and responsabile are the rows active on the request's ?on= date
ChoicesOffered(S, padre, resp) ==
    \E on_date \in Days :
        /\ IF padre = Null THEN TRUE ELSE StrutturaActiveOn(S, padre, on_date)
        /\ IF resp = Null THEN TRUE ELSE RespIsActive(resp, on_date)

\* StrutturaForm validation (forms.py 46-105) followed by ModelForm's
\* instance.full_clean(): a field that failed its own validation (livello is
\* required, struttura_padre excludes the instance itself, data_fine is dropped
\* by StrutturaForm.clean when it precedes data_inizio) is not copied to the
\* instance, which keeps its previous value when Struttura.clean runs.
FormInstance(S, d, pk, livello, padre, di, df, resp) ==
    LET base == IF pk = Null THEN BlankInstance(d) ELSE S[pk]
    IN  [base EXCEPT
            !.livello = IF livello = Null THEN base.livello ELSE livello,
            !.struttura_padre = IF padre # Null /\ padre = pk
                                THEN base.struttura_padre ELSE padre,
            !.data_inizio = di,
            !.data_fine = IF df # Null /\ df < di THEN base.data_fine ELSE df,
            !.responsabile = resp]

FormFieldsValid(pk, livello, padre, di, df) ==
    /\ livello # Null
    /\ ~(padre # Null /\ padre = pk)
    /\ ~(df # Null /\ df < di)

\* CreateView / UpdateView.form_valid -> form.save() -> Struttura.save
\* (views.py 336-399): validation, the write of the row, then the ledger.
FormRequest(pk, livello, padre, di, df, resp) ==
    /\ ChoicesOffered(strutture, padre, resp) = TRUE
    /\ LET inst == FormInstance(strutture, today, pk, livello, padre, di, df, resp)
           verdict == Clean(strutture, inst)
           valid == FormFieldsValid(pk, livello, padre, di, df) /\ verdict = "ok"
           s == [inst EXCEPT !.codice = SaveCodice(strutture, inst),
                             !.pk = SavedPk(strutture, inst)]
           sync == inst.pk = Null \/ RespChanged(strutture, inst)
       IN  IF ~valid
           THEN /\ lastOp' = [NoOp("form") EXCEPT !.verdict = verdict]
                /\ UNCHANGED <<strutture, assegnazioni>>
           ELSE /\ strutture' = Persist(strutture, [s EXCEPT !.pk = inst.pk])
                /\ IF sync
                   THEN \E cur \in CurrentAssignment(assegnazioni, s.pk, today) :
                          LET r == SyncAssignmentFromFk(assegnazioni, s, today, cur)
                          IN  /\ assegnazioni' = r.assegnazioni
                              /\ lastOp' = [op |-> "form", pk |-> s.pk,
                                            verdict |-> verdict, saved |-> TRUE,
                                            synced |-> TRUE, cur |-> cur,
                                            sync_err |-> r.err]
                   ELSE /\ assegnazioni' = assegnazioni
                        /\ lastOp' = [NoOp("form") EXCEPT
                                         !.verdict = verdict, !.saved = TRUE]
    /\ UNCHANGED <<today, procs>>

\* The same request, served only while the codice it stores stays within the
\* bounds of the model.
FormSave(pk, livello, padre, di, df, resp) ==
    /\ CodiceInBounds(SaveCodice(strutture,
            FormInstance(strutture, today, pk, livello, padre, di, df, resp))) = TRUE
    /\ FormRequest(pk, livello, padre, di, df, resp)

\* update_struttura_padre (views.py 267-276): get, set struttura_padre_id,
\* save().  Model.save() does not call clean().
UpdateStrutturaPadre(pk, nuovo_padre) ==
    /\ pk \in Pks(strutture)
    /\ nuovo_padre \in Pks(strutture) \cup {Null}
    /\ CodiceInBounds(SaveCodice(strutture,
            [strutture[pk] EXCEPT !.struttura_padre = nuovo_padre])) = TRUE
    /\ LET inst == [strutture[pk] EXCEPT !.struttura_padre = nuovo_padre]
           s == [inst EXCEPT !.codice = SaveCodice(strutture, inst)]
       IN  /\ strutture' = Persist(strutture, s)
           /\ lastOp' = [NoOp("padre") EXCEPT !.saved = TRUE]
    /\ UNCHANGED <<assegnazioni, today, procs>>

\* A call of sync_assignment_from_fk(effective_date=today) on a stored row
\* outside Struttura.save, as StrutturaAdmin.save_model makes (admin.py 93-95)
SyncCall(pk) ==
    /\ pk \in Pks(strutture)
    /\ \E cur \in CurrentAssignment(assegnazioni, pk, today) :
         LET r == SyncAssignmentFromFk(assegnazioni, strutture[pk], today, cur)
         IN  /\ assegnazioni' = r.assegnazioni
             /\ lastOp' = [NoOp("sync") EXCEPT !.pk = pk,
                              !.synced = TRUE, !.cur = cur, !.sync_err = r.err]
    /\ UNCHANGED <<strutture, today, procs>>

\* The clock moves to the next day
Tick ==
    /\ today < MaxDay
    /\ today' = today + 1
    /\ lastOp' = NoOp("tick")
    /\ UNCHANGED <<strutture, assegnazioni, procs>>

\* A request that is not in flight.  A request in flight holds the instance
\* it is saving, the day d it runs on and, in a reconciliation, the row object
\* cur that current_assignment returned.
NullRow ==
    [pk |-> Null, struttura |-> Null, responsabile |-> Null,
     data_inizio |-> Null, data_fine |-> Null]

IdleProc == [pc |-> "idle", inst |-> BlankInstance(Null), d |-> Null, cur |-> NullRow]

NoProcs == [p \in 1..NProc |-> IdleProc]

Procs == 1..NProc

Init ==
    /\ strutture = <<>>
    /\ assegnazioni = <<>>
    /\ today = 1
    /\ lastOp = NoOp("init")
    /\ procs = NoProcs

(***************************************************************************)
(* SpecTree: the tree and its codes.  Rows are created and edited through  *)
(* the forms and reparented through update_struttura_padre; every row has  *)
(* no manager and the default validity interval.                           *)
(***************************************************************************)
TreeFormSave ==
    \E pk \in Pks(strutture) \cup {Null}, livello \in {1, 2},
       padre \in Pks(strutture) \cup {Null} :
        /\ pk = Null => Len(strutture) < MaxStrutture
        /\ FormSave(pk, livello, padre, today, Null, Null)

TreeUpdatePadre ==
    \E pk \in Pks(strutture), nuovo_padre \in Pks(strutture) \cup {Null} :
        UpdateStrutturaPadre(pk, nuovo_padre)

NextTree == TreeFormSave \/ TreeUpdatePadre

SpecTree == Init /\ [][NextTree]_vars

\* The units reached from u by following 1..n struttura_padre links.
RECURSIVE AncestorSet(_, _, _)
AncestorSet(S, u, n) ==
    IF n = 0 \/ S[u].struttura_padre = Null THEN {}
    ELSE {S[u].struttura_padre} \cup AncestorSet(S, S[u].struttura_padre, n - 1)

Ancestors(S, u) == AncestorSet(S, u, Len(S))

Acyclic(S) == \A u \in Pks(S) : u \notin Ancestors(S, u)

\* C1: after any sequence of creations and reparentings through the forms and
\* the update_struttura_padre endpoint, no stored unit is reachable from
\* itself by following struttura_padre links.
C1_Acyclic == Acyclic(strutture)

\* C2: after any sequence of sequential creations and reparentings, no two
\* stored units have the same codice.
C2_CodesDistinct ==
    \A i, j \in Pks(strutture) :
        i # j => strutture[i].codice # strutture[j].codice

\* C9: in every acyclic stored tree, for every stored unit a and every stored
\* unit p, validating a with p as its parent fails with CycleDetected exactly
\* when p is a itself or a descendant of a.
C9_CycleRejected ==
    Acyclic(strutture) =>
        \A a, p \in Pks(strutture) :
            (Clean(strutture, [strutture[a] EXCEPT !.struttura_padre = p])
                 = "CycleDetected")
            <=> (p = a \/ a \in Ancestors(strutture, p))

\* C9's case: the form has just refused, with CycleDetected, to move a unit of
\* an acyclic tree under one of its descendants, one or two levels below it.
C9_Witness ==
    /\ Acyclic(strutture)
    /\ lastOp.op = "form"
    /\ lastOp.verdict = "CycleDetected"
    /\ \E a, p \in Pks(strutture) :
           /\ strutture[p].struttura_padre # a
           /\ a \in Ancestors(strutture, p)

(***************************************************************************)
(* SpecLedger: the ledger of root units.  Rows are created and edited      *)
(* through the forms with any start date and any manager, also none;       *)
(* sync_assignment_from_fk is also called on its own, as                   *)
(* StrutturaAdmin.save_model does; the clock advances.                     *)
(***************************************************************************)
LedgerFormSave ==
    \E pk \in Pks(strutture) \cup {Null}, di \in Days,
       resp \in ResponsabileIds \cup {Null} :
        /\ pk = Null => Len(strutture) < MaxLedgerStrutture
        /\ FormSave(pk, 1, Null, di, Null, resp)

LedgerSyncCall == \E pk \in Pks(strutture) : SyncCall(pk)

NextLedger == LedgerFormSave \/ LedgerSyncCall \/ Tick

SpecLedger == Init /\ [][NextLedger]_vars

\* Two rows of one unit whose closed intervals [data_inizio, data_fine]
\* intersect, a null data_fine standing for +infinity.
Intersect(a, b) ==
    /\ (b.data_fine = Null \/ a.data_inizio <= b.data_fine)
    /\ (a.data_fine = Null \/ b.data_inizio <= a.data_fine)

NoOverlap(A) ==
    \A i, j \in Pks(A) :
        (i # j /\ A[i].struttura = A[j].struttura) => ~Intersect(A[i], A[j])

\* C3: in every reachable state, after any sequence of saves and
\* reconciliations on any dates, the clock only moving forward, no two stored
\* assignments of the same unit have intersecting intervals.
C3_NonOverlap == NoOverlap(assegnazioni)

\* C3's case: a reconciliation has just closed the current row and opened its
\* successor, so the unit has at least two rows.
C3_Witness ==
    /\ lastOp.synced
    /\ lastOp.cur # Null
    /\ lastOp.sync_err = "ok"
    /\ Len(assegnazioni) >= 2
    /\ assegnazioni[Len(assegnazioni)].data_fine = Null
    /\ assegnazioni[lastOp.cur].data_fine # Null

\* C6: a reconciliation of a unit that directly follows a reconciliation of
\* the same unit, with the same manager on the same date, completes, as the
\* first one did, and leaves the ledger as the first one left it.
C6_Idempotent ==
    [][(lastOp.synced /\ lastOp'.op = "sync" /\ lastOp'.pk = lastOp.pk)
           => /\ lastOp.sync_err = "ok"
              /\ lastOp'.sync_err = "ok"
              /\ assegnazioni' = assegnazioni]_vars

Containing(A, u, d) ==
    {i \in Pks(A) :
        /\ A[i].struttura = u
        /\ A[i].data_inizio <= d
        /\ (A[i].data_fine = Null \/ d <= A[i].data_fine)}

\* C8: on a non-overlapping ledger current_assignment(d) is the unique row
\* whose interval contains d, and none when no interval contains d; the last
\* day of a closed row resolves to that row and the next day to the row that
\* starts then.
C8_PointInTime ==
    NoOverlap(assegnazioni) =>
        /\ \A u \in Pks(strutture), d \in Days :
               LET cont == Containing(assegnazioni, u, d)
               IN  /\ Cardinality(cont) <= 1
                   /\ CurrentAssignment(assegnazioni, u, d) =
                          IF cont = {} THEN {Null} ELSE cont
        /\ \A i, j \in Pks(assegnazioni) :
               LET r == assegnazioni[i]
                   s == assegnazioni[j]
               IN  (r.data_fine # Null /\ r.data_fine \in Days) =>
                     /\ CurrentAssignment(assegnazioni, r.struttura, r.data_fine) = {i}
                     /\ ( /\ s.struttura = r.struttura
                          /\ s.data_inizio = r.data_fine + 1
                          /\ s.data_inizio \in Days )
                        => CurrentAssignment(assegnazioni, r.struttura,
                                             r.data_fine + 1) = {j}

\* C8's case: a unit's ledger holds a closed row and the row of another
\* person that starts the day after it ends.
C8_Witness ==
    /\ NoOverlap(assegnazioni)
    /\ \E i, j \in Pks(assegnazioni) :
           /\ assegnazioni[i].struttura = assegnazioni[j].struttura
           /\ assegnazioni[i].data_fine \in Days
           /\ assegnazioni[i].data_inizio < assegnazioni[i].data_fine
           /\ assegnazioni[j].data_inizio = assegnazioni[i].data_fine + 1
           /\ assegnazioni[j].responsabile # assegnazioni[i].responsabile

(***************************************************************************)
(* SpecRoot: the validator on units without a parent.  Root units are      *)
(* created and edited through the forms with any level, also none, and any *)
(* validity interval; they have no manager; the clock advances.            *)
(***************************************************************************)
RootFormSave ==
    \E pk \in Pks(strutture) \cup {Null}, livello \in LivelloIds \cup {Null},
       di \in Days, df \in Days \cup {Null} :
        /\ pk = Null => Len(strutture) < MaxLedgerStrutture
        /\ FormSave(pk, livello, Null, di, df, Null)

NextRoot == RootFormSave \/ Tick

SpecRoot == Init /\ [][NextRoot]_vars

\* The instances without a parent that the forms can hand to the validator
\* in the current state.
RootCandidates ==
    {FormInstance(strutture, today, pk, livello, Null, di, df, Null) :
        pk \in Pks(strutture) \cup {Null}, livello \in LivelloIds \cup {Null},
        di \in Days, df \in Days \cup {Null}}

WellFormed(s) == s.data_fine = Null \/ s.data_fine >= s.data_inizio

RootRule(s) ==
    /\ (Clean(strutture, s) = "RootNotAllowed")
           <=> (s.livello # Null /\ ~Livelli[s.livello].can_be_root)
    /\ (s.livello # Null /\ Livelli[s.livello].can_be_root)
           => Clean(strutture, s) = "ok"

\* C10, as stated: validating a unit without a parent fails with
\* RootNotAllowed exactly when its level resolves and cannot be a root, and
\* succeeds for a root-eligible level.
C10_RootEligibility == \A s \in RootCandidates : RootRule(s)

\* C10, amended: the same for every unit without a parent whose validity
\* interval is well formed (data_fine absent or not before data_inizio); the
\* interval check comes first and fails with InvalidInterval otherwise.
C10_RootEligibilityWellFormed ==
    \A s \in RootCandidates : WellFormed(s) => RootRule(s)

\* C10's case: the form has just refused, with RootNotAllowed, a unit without
\* a parent, and a stored root unit's level would not pass a level-pair check.
C10_Witness ==
    /\ lastOp.op = "form"
    /\ lastOp.verdict = "RootNotAllowed"
    /\ \E u \in Pks(strutture) :
           /\ strutture[u].struttura_padre = Null
           /\ Livelli[strutture[u].livello].allowed_parents # {}
           /\ strutture[u].data_fine # Null

(***************************************************************************)
(* SpecGen: creations in flight together.  A creation through the form is  *)
(* three steps: the form validates the instance; Struttura.save reads the  *)
(* siblings and computes the codice; the row is inserted.  Nothing in      *)
(* views.py or models.py locks a table or opens a transaction, so the      *)
(* steps of different requests interleave freely.                          *)
(***************************************************************************)
InFlight == {p \in Procs : procs[p].pc # "idle"}

\* StrutturaCreateView: the form is bound and validated (forms.py:79-105,
\* models.py:181-239); a refused request changes nothing
GenValidate(p) ==
    \E livello \in LivelloIds, padre \in Pks(strutture) \cup {Null} :
        LET inst == FormInstance(strutture, today, Null, livello, padre,
                                 today, Null, Null)
        IN  /\ procs[p].pc = "idle"
            /\ Len(strutture) + Cardinality(InFlight) < MaxStrutture
            /\ ChoicesOffered(strutture, padre, Null) = TRUE
            /\ Clean(strutture, inst) = "ok"
            /\ procs' = [procs EXCEPT ![p] =
                            [IdleProc EXCEPT !.pc = "generate", !.inst = inst,
                                             !.d = today]]
            /\ lastOp' = NoOp("create")
            /\ UNCHANGED <<strutture, assegnazioni, today>>

\* Struttura.save, lines 357-362: the siblings are read and the codice computed
GenCode(p) ==
    /\ procs[p].pc = "generate"
    /\ CodiceInBounds(SaveCodice(strutture, procs[p].inst)) = TRUE
    /\ procs' = [procs EXCEPT ![p].pc = "persist",
                              ![p].inst.codice = SaveCodice(strutture, procs[p].inst)]
    /\ lastOp' = NoOp("create")
    /\ UNCHANGED <<strutture, assegnazioni, today>>

\* Struttura.save, lines 364-369: the row is inserted; the reconciliation of
\* a new unit without a manager finds no current row and opens none
GenPersist(p) ==
    /\ procs[p].pc = "persist"
    /\ strutture' = Persist(strutture, procs[p].inst)
    /\ procs' = [procs EXCEPT ![p] = IdleProc]
    /\ lastOp' = NoOp("create")
    /\ UNCHANGED <<assegnazioni, today>>

NextGen == \E p \in Procs : GenValidate(p) \/ GenCode(p) \/ GenPersist(p)

SpecGen == Init /\ [][NextGen]_vars

\* The codes k, parentCode.k for k = 1..n
ExpectedCodes(parent, n) ==
    {(IF parent = Null THEN <<>> ELSE strutture[parent].codice \o <<Dot>>) \o Str(k) :
        k \in 1..n}

\* C4: when units are created concurrently under the same parent, or all at
\* root, the codes of the N units created there are pairwise distinct and are
\* exactly parentCode.1 .. parentCode.N (1 .. N at root).
C4_ConcurrentCodes ==
    \A parent \in Pks(strutture) \cup {Null} :
        LET children == Siblings(strutture, parent, Null)
        IN  /\ \A i, j \in children :
                   i # j => strutture[i].codice # strutture[j].codice
            /\ {strutture[i].codice : i \in children}
                   = ExpectedCodes(parent, Cardinality(children))

(***************************************************************************)
(* SpecRec: saves of one unit in flight together.  A unit is created       *)
(* through the form; later saves of it that change the manager are four    *)
(* steps each after the row is updated: sync_assignment_from_fk reads the  *)
(* current row, closes it, validates the new row, inserts it.  No lock or  *)
(* transaction spans them.                                                 *)
(***************************************************************************)
RecCreate ==
    \E di \in Days, resp \in ResponsabileIds \cup {Null} :
        /\ Len(strutture) < MaxLedgerStrutture
        /\ FormSave(Null, 1, Null, di, Null, resp)

\* StrutturaUpdateView with another manager: the form validates, Struttura.save
\* reads the old row and updates it (lines 343-364); the reconciliation is due
RecSave(p) ==
    \E pk \in Pks(strutture), resp \in ResponsabileIds \cup {Null} :
        LET inst == FormInstance(strutture, today, pk, strutture[pk].livello,
                                 strutture[pk].struttura_padre,
                                 strutture[pk].data_inizio,
                                 strutture[pk].data_fine, resp)
        IN  /\ procs[p].pc = "idle"
            /\ ChoicesOffered(strutture, inst.struttura_padre, resp) = TRUE
            /\ Clean(strutture, inst) = "ok"
            /\ RespChanged(strutture, inst) = TRUE
            /\ strutture' = Persist(strutture, inst)
            /\ procs' = [procs EXCEPT ![p] =
                            [IdleProc EXCEPT !.pc = "read", !.inst = inst,
                                             !.d = today]]
            /\ lastOp' = NoOp("save")
            /\ UNCHANGED <<assegnazioni, today>>

\* sync_assignment_from_fk, lines 282-288: read the current row, return if it
\* is the new manager's
RecRead(p) ==
    /\ procs[p].pc = "read"
    /\ \E cur \in CurrentAssignment(assegnazioni, procs[p].inst.pk, procs[p].d) :
         LET resp == procs[p].inst.responsabile
             same == IF cur = Null \/ resp = Null THEN FALSE
                     ELSE assegnazioni[cur].responsabile = resp
             next == IF same THEN "idle"
                     ELSE IF cur # Null THEN "close"
                     ELSE IF resp # Null THEN "check" ELSE "idle"
         IN  procs' = [procs EXCEPT ![p] =
                         IF next = "idle" THEN IdleProc
                         ELSE [procs[p] EXCEPT !.pc = next,
                                  !.cur = IF cur = Null THEN NullRow
                                          ELSE assegnazioni[cur]]]
    /\ lastOp' = NoOp("read")
    /\ UNCHANGED <<strutture, assegnazioni, today>>

\* lines 291-300: close the row that was read; a ValidationError ends the request
RecClose(p) ==
    /\ procs[p].pc = "close"
    /\ LET r == CloseRow(assegnazioni, procs[p].cur, procs[p].d)
           next == IF r.err # "ok" \/ procs[p].inst.responsabile = Null
                   THEN "idle" ELSE "check"
       IN  /\ assegnazioni' = r.assegnazioni
           /\ procs' = [procs EXCEPT ![p] =
                           IF next = "idle" THEN IdleProc
                           ELSE [procs[p] EXCEPT !.pc = next]]
           /\ lastOp' = [NoOp("close") EXCEPT !.sync_err = r.err]
    /\ UNCHANGED <<strutture, today>>

\* lines 303-309 and 431-432: StrutturaResponsabile.save validates the new row
RecCheck(p) ==
    /\ procs[p].pc = "check"
    /\ LET r == NewAssegnazione(assegnazioni, procs[p].inst, procs[p].d)
           err == AssegnazioneClean(assegnazioni, r)
       IN  /\ procs' = [procs EXCEPT ![p] =
                           IF err # "ok" THEN IdleProc
                           ELSE [procs[p] EXCEPT !.pc = "insert"]]
           /\ lastOp' = [NoOp("check") EXCEPT !.sync_err = err]
    /\ UNCHANGED <<strutture, assegnazioni, today>>

\* line 433: the validated row is inserted
RecInsert(p) ==
    /\ procs[p].pc = "insert"
    /\ LET r == NewAssegnazione(assegnazioni, procs[p].inst, procs[p].d)
       IN  assegnazioni' =
               Append(assegnazioni, [r EXCEPT !.pk = Len(assegnazioni) + 1])
    /\ procs' = [procs EXCEPT ![p] = IdleProc]
    /\ lastOp' = NoOp("insert")
    /\ UNCHANGED <<strutture, today>>

NextRec ==
    \/ RecCreate
    \/ Tick
    \/ \E p \in Procs :
          RecSave(p) \/ RecRead(p) \/ RecClose(p) \/ RecCheck(p) \/ RecInsert(p)

SpecRec == Init /\ [][NextRec]_vars

\* C5: two reconciliations of the same unit in flight together never both
\* hold the same current row to close, and the ledger they leave satisfies
\* the non-overlap invariant, as the ledger of either serial order does.
C5_Serialized ==
    /\ \A p, q \in Procs :
           (p # q /\ procs[p].pc = "close" /\ procs[q].pc = "close")
               => procs[p].cur.pk # procs[q].cur.pk
    /\ NoOverlap(assegnazioni)

(***************************************************************************)
(* SpecLevel: the tree as the forms alone build it.  Units are created and *)
(* edited through the forms with any level, also none, and any parent;     *)
(* every request is validated.                                             *)
(***************************************************************************)
LevelFormSave ==
    \E pk \in Pks(strutture) \cup {Null}, livello \in LivelloIds \cup {Null},
       padre \in Pks(strutture) \cup {Null} :
        /\ pk = Null => Len(strutture) < MaxStrutture
        /\ FormSave(pk, livello, padre, today, Null, Null)

NextLevel == LevelFormSave

SpecLevel == Init /\ [][NextLevel]_vars

\* The instances with a parent and both levels resolved that the forms can
\* hand to the validator in the current state.
PairCandidates ==
    {s \in {FormInstance(strutture, today, pk, livello, padre, today, Null, Null) :
               pk \in Pks(strutture) \cup {Null},
               livello \in LivelloIds \cup {Null}, padre \in Pks(strutture)} :
        /\ s.struttura_padre # Null
        /\ s.livello # Null
        /\ strutture[s.struttura_padre].livello # Null}

\* (a) the child level's whitelist is non-empty and lacks the parent's level,
\* or (b) it is empty and the parent's order is not below the child's.
Inadmissible(child, parent) ==
    \/ /\ Livelli[child].allowed_parents # {}
       /\ parent \notin Livelli[child].allowed_parents
    \/ /\ Livelli[child].allowed_parents = {}
       /\ Livelli[parent].ordine >= Livelli[child].ordine

PairRule(s) ==
    (Clean(strutture, s) = "LevelMismatch")
        <=> Inadmissible(s.livello, strutture[s.struttura_padre].livello)

\* The proposed parent is neither the unit itself nor one of its descendants.
ParentOutsideSubtree(s) ==
    \/ s.pk = Null
    \/ /\ s.struttura_padre # s.pk
       /\ s.pk \notin Ancestors(strutture, s.struttura_padre)

RootSeqCreate ==
    \E livello \in {l \in LivelloIds : Livelli[l].can_be_root} :
        /\ Len(strutture) < MaxRoots
        /\ FormRequest(Null, livello, Null, today, Null, Null)

NextRootSeq == RootSeqCreate

SpecRootSeq == Init /\ [][NextRootSeq]_vars

\* C12: when root units are created one after another in an initially empty
\* store, the i-th created unit has the decimal string of i as its codice.
C12_RootSequence ==
    \A i \in Pks(strutture) : strutture[i].codice = Str(i)

\* C13: every step that persists a unit (create, update, reparent) stores
\* only a row that the validator accepts in the state before the step; a row
\* the validator refuses leaves the stored units and the ledger as they were.
C13_ValidationGates ==
    [][\A u \in Pks(strutture') :
          LET new == u \notin Pks(strutture)
              cand == IF new THEN [strutture'[u] EXCEPT !.pk = Null]
                      ELSE strutture'[u]
              refused == Clean(strutture, cand) # "ok"
          IN  refused =>
                /\ ~new
                /\ strutture'[u] = strutture[u]
                /\ \A i \in Pks(assegnazioni') :
                       assegnazioni'[i].struttura = u =>
                           /\ i \in Pks(assegnazioni)
                           /\ assegnazioni'[i] = assegnazioni[i]]_vars

IsPositiveNumber(s) == IntOk(s) /\ IntValue(s) > 0

\* c is prefix + "." + k for a positive integer k.
ExtendsCode(c, prefix) ==
    LET n == Len(prefix)
    IN  /\ Len(c) > n + 1
        /\ SubSeq(c, 1, n) = prefix
        /\ c[n + 1] = Dot
        /\ IsPositiveNumber(SubSeq(c, n + 2, Len(c)))

\* C15: in every reachable state every stored unit with a parent has
\* codice = parent.codice + "." + k for a positive integer k, and every stored
\* root unit has a positive integer without a dot as its codice.
C15_CodeReflectsChain ==
    \A u \in Pks(strutture) :
        IF strutture[u].struttura_padre = Null
        THEN IsPositiveNumber(strutture[u].codice)
        ELSE ExtendsCode(strutture[u].codice,
                         strutture[strutture[u].struttura_padre].codice)

\* The units a step has saved: the one its reconciliation ran for, or those
\* whose row it wrote.
SavedUnits ==
    IF lastOp'.pk # Null THEN {lastOp'.pk}
    ELSE {u \in Pks(strutture') : u \notin Pks(strutture) \/ strutture'[u] # strutture[u]}

\* C16: after every successful save of unit u on day d, for every day t > d,
\* current_assignment(u, t) is none when u's manager pointer is none, and is a
\* row of the pointer's person when the pointer is set and t >= u.data_inizio.
C16_PointerLedgerSync ==
    [][(/\ lastOp'.op = "form" /\ lastOp'.saved
        /\ lastOp'.synced => lastOp'.sync_err = "ok")
          => \A u \in SavedUnits, t \in Days :
                t > today =>
                  \A c \in CurrentAssignment(assegnazioni', u, t) :
                     IF strutture'[u].responsabile = Null THEN c = Null
                     ELSE t >= strutture'[u].data_inizio =>
                            /\ c # Null
                            /\ assegnazioni'[c].responsabile
                                   = strutture'[u].responsabile]_vars

\* C17: in every reachable state every stored assignment with a data_fine has
\* data_fine >= data_inizio, also when it was closed on its own start date.
C17_WellFormedIntervals ==
    \A i \in Pks(assegnazioni) :
        assegnazioni[i].data_fine # Null =>
            assegnazioni[i].data_fine >= assegnazioni[i].data_inizio

\* C17's case: a reconciliation has just closed a row that started on the
\* effective date, leaving the one-day interval [today, today].
C17_Witness ==
    /\ lastOp.synced
    /\ lastOp.cur # Null
    /\ assegnazioni[lastOp.cur].data_inizio = today
    /\ assegnazioni[lastOp.cur].data_fine = today

\* C18: across unit saves and reconciliations no assignment is removed and
\* none changes its unit, person or data_inizio; the only change to an
\* existing row is to the data_fine of a row active on the effective date.
C18_AppendOnly ==
    [][\A i \in Pks(assegnazioni) :
          /\ i \in Pks(assegnazioni')
          /\ assegnazioni'[i].pk = assegnazioni[i].pk
          /\ assegnazioni'[i].struttura = assegnazioni[i].struttura
          /\ assegnazioni'[i].responsabile = assegnazioni[i].responsabile
          /\ assegnazioni'[i].data_inizio = assegnazioni[i].data_inizio
          /\ assegnazioni'[i].data_fine # assegnazioni[i].data_fine =>
                /\ assegnazioni'[i].data_fine # Null
                /\ assegnazioni[i].data_inizio <= today
                /\ \/ assegnazioni[i].data_fine = Null
                   \/ assegnazioni[i].data_fine >= today]_vars

\* C18's case: a save that cleared the manager has just closed the current
\* row on the day before today and opened no successor.
C18_Witness ==
    /\ lastOp.op = "form" /\ lastOp.synced /\ lastOp.sync_err = "ok"
    /\ lastOp.cur # Null
    /\ strutture[lastOp.pk].responsabile = Null
    /\ assegnazioni[lastOp.cur].data_fine = today - 1
    /\ lastOp.cur = Len(assegnazioni)

\* Person p's own employment interval covers day d.
Employed(p, d) ==
    /\ Responsabili[p].data_inizio <= d
    /\ (Responsabili[p].data_fine = Null \/ d <= Responsabili[p].data_fine)

\* C19: responsabile_on(unit, date) is the person of the assignment active on
\* the date when that person is employed on the date; otherwise the unit's
\* manager pointer when that person is employed on the date; otherwise none.
C19_ResolutionOrder ==
    \A u \in Pks(strutture), d \in Days :
        \A c \in CurrentAssignment(assegnazioni, u, d) :
            LET led == IF c = Null THEN Null ELSE assegnazioni[c].responsabile
                ptr == strutture[u].responsabile
            IN  ResponsabileOn(strutture, assegnazioni, u, d, c) =
                    IF led # Null /\ Employed(led, d) THEN led
                    ELSE IF ptr # Null /\ Employed(ptr, d) THEN ptr
                    ELSE Null

\* C19's case: on some day the ledger's person is not employed while the
\* pointer's, another person, is; and on another day the ledger's person is
\* employed and differs from the pointer's.
C19_Witness ==
    \E u \in Pks(strutture), d, e \in Days :
        \E c \in CurrentAssignment(assegnazioni, u, d),
           f \in CurrentAssignment(assegnazioni, u, e) :
            /\ c # Null /\ f # Null
            /\ strutture[u].responsabile # Null
            /\ ~Employed(assegnazioni[c].responsabile, d)
            /\ Employed(strutture[u].responsabile, d)
            /\ Employed(assegnazioni[f].responsabile, e)
            /\ assegnazioni[f].responsabile # strutture[u].responsabile

\* C20: after any sequence of creations and updates, every stored unit
\* without a parent has a level that can be a root, and every stored unit with
\* a parent has a parent whose level is admissible for its own.
C20_StructuralValidity ==
    \A u \in Pks(strutture) :
        LET p == strutture[u].struttura_padre
        IN  IF p = Null THEN Livelli[strutture[u].livello].can_be_root
            ELSE ~Inadmissible(strutture[u].livello, strutture[p].livello)

(***************************************************************************)
(* Termination of the validator.                                           *)
(***************************************************************************)
\* C21: for every reachable store, every stored or new unit and every
\* proposed parent, the ancestor walk of Struttura.clean ends, within as many
\* steps as there are stored units.
C21_ValidatorTerminates ==
    \A pk \in Pks(strutture) \cup {Null}, padre \in Pks(strutture) :
        AncestorWalk(strutture, pk, padre, 1) # "NonTermination"

(***************************************************************************)
(* The reconciliation's insert and close, step by step.                    *)
(***************************************************************************)
\* The reconciliation a form save has just made reached the insert of a new
\* row: the row it read is not the new manager's, the close went through and
\* there is a new manager.
InsertAttempted ==
    /\ lastOp'.op = "form" /\ lastOp'.synced
    /\ strutture'[lastOp'.pk].responsabile # Null
    /\ lastOp'.cur # Null =>
          /\ assegnazioni[lastOp'.cur].responsabile
                 # strutture'[lastOp'.pk].responsabile
          /\ CloseCurrent(assegnazioni, lastOp'.cur, today).err = "ok"

\* C22: in the sequential ledger specification, where only
\* sync_assignment_from_fk writes the ledger, no insert of a new assignment
\* made by the reconciliation of a form save is refused as overlapping.
C22_OverlapNeverFires ==
    [][InsertAttempted =>
          OpenNew(CloseCurrent(assegnazioni, lastOp'.cur, today).assegnazioni,
                  strutture'[lastOp'.pk], today).err
              # "OverlappingAssignment"]_vars

(***************************************************************************)
(* Frame conditions of a save.                                             *)
(***************************************************************************)
\* C23: in every step of the tree specification (form saves and
\* update_struttura_padre) a stored unit that has a codice and whose parent
\* is the same before and after keeps its codice, and at most one stored row,
\* the saved one, differs after the step: no other unit's codice changes.
C23_CodeStability ==
    [][/\ \A u \in Pks(strutture) :
             ( /\ strutture[u].codice # <<>>
               /\ strutture'[u].struttura_padre = strutture[u].struttura_padre )
             => strutture'[u].codice = strutture[u].codice
       /\ Cardinality({u \in Pks(strutture) : strutture'[u] # strutture[u]}) <= 1
      ]_vars

\* C23's case: the form has just stored an edit of an existing unit, and the
\* store holds a root unit and a unit with a parent whose codice is not the
\* one a fresh generation would give them now: they kept the codice they had.
C23_Witness ==
    /\ lastOp.op = "form" /\ lastOp.saved /\ ~lastOp.synced
    /\ \E u \in Pks(strutture) :
           /\ strutture[u].struttura_padre = Null
           /\ strutture[u].codice # GenerateCodeForRoot(strutture, u)
    /\ \E u \in Pks(strutture) :
           /\ strutture[u].struttura_padre # Null
           /\ strutture[u].codice
                 # GenerateCodeForParent(strutture, u, strutture[u].struttura_padre)

\* C24: whenever sync_assignment_from_fk, called on day d, has read a current
\* row whose person is not the unit's new manager (another person or none),
\* that row's data_fine afterwards is max(d - 1, data_inizio); a row that
\* started on d is left as the one-day interval [d, d].
C24_CloseDateClamped ==
    [][( /\ lastOp'.synced
         /\ lastOp'.cur # Null
         /\ strutture'[lastOp'.pk].responsabile
               # assegnazioni[lastOp'.cur].responsabile )
       => LET cur == assegnazioni[lastOp'.cur]
              d == today
          IN  /\ assegnazioni'[lastOp'.cur].data_fine
                    = IF d - 1 >= cur.data_inizio THEN d - 1 ELSE cur.data_inizio
              /\ cur.data_inizio = d =>
                    /\ assegnazioni'[lastOp'.cur].data_inizio = d
                    /\ assegnazioni'[lastOp'.cur].data_fine = d]_vars

\* C24's case: a form save has just replaced or cleared the manager of a
\* unit whose current row, of another person, started today: the row now
\* covers today alone.
C24_Witness ==
    /\ lastOp.op = "form" /\ lastOp.synced
    /\ lastOp.cur # Null
    /\ assegnazioni[lastOp.cur].responsabile # strutture[lastOp.pk].responsabile
    /\ assegnazioni[lastOp.cur].data_inizio = today
    /\ assegnazioni[lastOp.cur].data_fine = today
    /\ today > 1

(***************************************************************************)
(* SpecSave: Struttura.save as a whole, on several units.  Units are       *)
(* created and edited through the forms, as roots of level 1 or as         *)
(* children of level 2, with the default start date and any manager, also  *)
(* none; the clock advances.                                               *)
(***************************************************************************)
SaveFormSave ==
    \E pk \in Pks(strutture) \cup {Null}, padre \in Pks(strutture) \cup {Null},
       resp \in ResponsabileIds \cup {Null} :
        /\ pk = Null => Len(strutture) < MaxSaveStrutture
        /\ FormSave(pk, IF padre = Null THEN 1 ELSE 2, padre, today, Null, resp)

SaveTick == today < MaxSaveDay /\ Tick

NextSave == SaveFormSave \/ SaveTick

SpecSave == Init /\ [][NextSave]_vars

\* A step has added a row of Struttura.
Created == Len(strutture') = Len(strutture) + 1

\* A step has changed the manager pointer of a stored row.
PointerDiffers ==
    \E u \in Pks(strutture) :
        strutture'[u].responsabile # strutture[u].responsabile

\* C25: a form save that is stored calls sync_assignment_from_fk exactly when
\* it created the unit or changed its manager pointer; a stored save of an
\* existing unit with the same manager pointer (a reparenting, a change of
\* level, a save of the same values) leaves every assignment as it was, and
\* the creation of a unit without a manager adds no assignment.
C25_ReconcileTrigger ==
    [][(lastOp'.op = "form" /\ lastOp'.saved)
       => /\ lastOp'.synced <=> (Created \/ PointerDiffers)
          /\ ~(Created \/ PointerDiffers) => assegnazioni' = assegnazioni
          /\ (Created /\ strutture'[Len(strutture')].responsabile = Null)
                => assegnazioni' = assegnazioni]_vars

\* C25's case: the form has just stored an edit that kept the manager
\* pointer, and the store holds a unit with a manager and an open assignment
\* that sits under a parent created after it: it was moved there by an edit.
C25_Witness ==
    /\ lastOp.op = "form" /\ lastOp.saved /\ ~lastOp.synced
    /\ \E u \in Pks(strutture) :
           /\ strutture[u].responsabile # Null
           /\ strutture[u].struttura_padre # Null
           /\ strutture[u].struttura_padre > u
           /\ \E i \in Pks(assegnazioni) :
                  /\ assegnazioni[i].struttura = u
                  /\ assegnazioni[i].responsabile = strutture[u].responsabile
                  /\ assegnazioni[i].data_fine = Null

(***************************************************************************)
(* The organisation chart on a date: visualizza_organigramma               *)
(* (views.py 118-165).                                                     *)
(***************************************************************************)
\* .order_by('codice') on the rows U.  Rows with equal codice come in an
\* order the database chooses; which rows the chart holds does not depend on it.
RECURSIVE OrderByCodice(_, _)
OrderByCodice(S, U) ==
    IF U = {} THEN <<>>
    ELSE LET first == CHOOSE u \in U :
                         \A v \in U : ~StrLess(S[v].codice, S[u].codice)
         IN  <<first>> \o OrderByCodice(S, U \ {first})

\* Struttura.active_children(on_date) (models.py 173-174)
ActiveChildren(S, s, on_date) ==
    OrderByCodice(S, {c \in Pks(S) : /\ S[c].struttura_padre = s
                                     /\ StrutturaActiveOn(S, c, on_date)})

\* to_dict (views.py 124-141): the row's snapshot, its manager on the date
\* and, recursively, the snapshots of its children active on the date
RECURSIVE ToDict(_, _, _, _)
ToDict(S, A, s, on_date) ==
    LET assegn == CHOOSE c \in CurrentAssignment(A, s, on_date) : TRUE
        children == ActiveChildren(S, s, on_date)
    IN  [id |-> s,
         codice |-> S[s].codice,
         livello |-> S[s].livello,
         responsabile |-> ResponsabileOn(S, A, s, on_date, assegn),
         children |-> [i \in 1..Len(children) |->
                          ToDict(S, A, children[i], on_date)]]

\* roots_qs and data (views.py 143-159): the rows without a parent that are
\* active on the date, in codice order, each with its subtree
OrganigrammaData(S, A, on_date) ==
    LET roots == OrderByCodice(S, {u \in Pks(S) :
                                      /\ StrutturaActiveOn(S, u, on_date)
                                      /\ S[u].struttura_padre = Null})
    IN  [i \in 1..Len(roots) |-> ToDict(S, A, roots[i], on_date)]

\* The request: the chart on ?on=on_date is computed from the stored rows and
\* rendered; nothing is written.
VisualizzaOrganigramma(on_date) ==
    /\ lastOp' = [on_date |-> on_date,
                  data |-> OrganigrammaData(strutture, assegnazioni, on_date)]
                 @@ NoOp("view")
    /\ UNCHANGED <<strutture, assegnazioni, today, procs>>

(***************************************************************************)
(* SpecView: the chart of a tree whose units have validity intervals.      *)
(* Units are created and edited through the forms, as roots of level 1 or  *)
(* as children of level 2, with any start and end date and no manager; the *)
(* chart is requested for any date.                                        *)
(***************************************************************************)
ViewFormSave ==
    \E pk \in Pks(strutture) \cup {Null}, padre \in Pks(strutture) \cup {Null},
       di \in Days, df \in Days \cup {Null} :
        /\ pk = Null => Len(strutture) < MaxSaveStrutture
        /\ FormSave(pk, IF padre = Null THEN 1 ELSE 2, padre, di, df, Null)

ViewRequest == \E on_date \in Days : VisualizzaOrganigramma(on_date)

NextView == ViewFormSave \/ ViewRequest

SpecView == Init /\ [][NextView]_vars

\* The nodes of a chart, in the order they are rendered: the unit of each
\* snapshot and the unit of the snapshot that holds it among its children
\* (Null for a snapshot at the top).
RECURSIVE ForestNodes(_, _)
ForestNodes(data, under) ==
    IF data = <<>> THEN <<>>
    ELSE <<[id |-> Head(data).id, under |-> under]>>
             \o ForestNodes(Head(data).children, Head(data).id)
             \o ForestNodes(Tail(data), under)

\* C26: the chart returned for a date holds exactly the stored units whose
\* [data_inizio, data_fine] covers the date, each once; the snapshots at the
\* top are the units without a parent and every other snapshot is among the
\* children of its stored parent, also for a unit that is valid on the date
\* while its parent is not.
C26_TreeMaterialization ==
    lastOp.op = "view" =>
        LET nodes == ForestNodes(lastOp.data, Null)
            valid == {u \in Pks(strutture) :
                         StrutturaActiveOn(strutture, u, lastOp.on_date)}
        IN  /\ {nodes[i].id : i \in 1..Len(nodes)} = valid
            /\ \A i, j \in 1..Len(nodes) : nodes[i].id = nodes[j].id => i = j
            /\ \A i \in 1..Len(nodes) :
                   nodes[i].under = strutture[nodes[i].id].struttura_padre

\* The units a step has touched: those whose row it added or changed and
\* those one of whose assignments it added or changed.
Touched ==
    {u \in Pks(strutture') : u \notin Pks(strutture) \/ strutture'[u] # strutture[u]}
    \cup {assegnazioni'[i].struttura : i \in
             {j \in Pks(assegnazioni') :
                 j \notin Pks(assegnazioni) \/ assegnazioni'[j] # assegnazioni[j]}}
    \cup {assegnazioni[i].struttura : i \in
             {j \in Pks(assegnazioni) :
                 j \notin Pks(assegnazioni') \/ assegnazioni'[j] # assegnazioni[j]}}

\* C27: a form save of a unit, whether it is stored and reconciled, refused
\* by the validator or stored with a failed reconciliation, touches no row
\* and no assignment of any other unit: at most one unit is touched, it is
\* the saved one, and a refused save touches none.
C27_Isolation ==
    [][lastOp'.op = "form"
       => /\ Cardinality(Touched) <= 1
          /\ lastOp'.synced => Touched \subseteq {lastOp'.pk}
          /\ ~lastOp'.saved => Touched = {}]_vars

\* C27's case: the save of a unit has just been stored and its
\* reconciliation has failed, while another unit has a manager and an open
\* assignment of its own.
C27_Witness ==
    /\ lastOp.op = "form" /\ lastOp.synced /\ lastOp.sync_err # "ok"
    /\ \E v \in Pks(strutture) :
           /\ v # lastOp.pk
           /\ strutture[v].responsabile # Null
           /\ \E i \in Pks(assegnazioni) :
                  /\ assegnazioni[i].struttura = v
                  /\ assegnazioni[i].data_fine = Null

\* C28: after a form save on day d that clears a unit's manager pointer and
\* whose reconciliation completes, responsabile_on(unit, d) is none, also
\* when the assignment it closed started on d.
C28_ClearedIsVacant ==
    [][\A u \in Pks(strutture) :
          ( /\ lastOp'.op = "form" /\ lastOp'.saved
            /\ lastOp'.synced /\ lastOp'.pk = u /\ lastOp'.sync_err = "ok"
            /\ strutture[u].responsabile # Null
            /\ strutture'[u].responsabile = Null )
          => \A c \in CurrentAssignment(assegnazioni', u, today) :
                ResponsabileOn(strutture', assegnazioni', u, today, c) = Null]_vars

\* C29: when sync_assignment_from_fk fails, the ledger is as it was before
\* the call: the row that was current is not left closed without a successor.
C29_ReconcileAllOrNothing ==
    [][(lastOp'.synced /\ lastOp'.sync_err # "ok")
          => assegnazioni' = assegnazioni]_vars

====
